---- MODULE Spec2Model ----
(***************************************************************************)
(* A model of swagger_meqa: the in-memory object store (mqswag/db.go), the *)
(* schema engine (Parses, Iterate), the value generator and the test plan  *)
(* engine (mqplan/dsl.go).                                                 *)
(*                                                                         *)
(* Each subsystem has its own specification over the shared variables:     *)
(*   Spec      the object store, one caller, every handler one step        *)
(*   SpecConc  the object store, concurrent callers, lock/body/unlock      *)
(*   SpecLoad  TestPlan.InitFromFile over the sub-documents of a plan file *)
(*   SpecRun   TestPlan.Run over a loaded plan                             *)
(*   SpecGen   generateFloat and generateInt                               *)
(*   SpecIter  SchemaRef.Iterate over a schema document                    *)
(*   SpecParse SchemaRef.Parses of an object against a schema              *)
(***************************************************************************)
EXTENDS Integers, Sequences, FiniteSets, TLC

\* ------------------------------------------------------------------------
\* Bounds of the model
\* ------------------------------------------------------------------------

\* most entries the store holds (all collections together) before a caller
\* stops inserting
MaxObjects == 3

\* ------------------------------------------------------------------------
\* The object store: values
\* ------------------------------------------------------------------------

\* the schema names db.Init registered
Classes == {"A", "B"}

\* a name no schema was registered under
UnknownClass == "X"

ClassNames == Classes \cup {UnknownClass}

\* the related instances an association can name
AssocVals == {"u", "v"}

\* the association maps callers insert with: map[className] -> instance
InsertAssocs ==
    { <<>>,
      [c \in {"A", "B"} |-> IF c = "A" THEN "u" ELSE "v"] }

\* the association maps callers search with
QueryAssocs ==
    { <<>>,
      [c \in {"B"} |-> "v"],
      [c \in {"A", "B"} |-> "u"] }

\* map[string]interface{} objects live on the heap: entries and callers hold
\* references to them
ObjIds == {"o1", "o2"}

InitHeap ==
    [o \in ObjIds |-> IF o = "o1" THEN [k \in {"f"} |-> 1]
                                  ELSE [k \in {"f", "g"} |-> 2]]

\* the criteria callers search with
Criterias == { [k \in {"f"} |-> 1] }

\* the desiredCount values callers pass to Find
Counts == {-1, 0, 1, 2}

\* the desiredCount values callers pass to Delete
DeleteCounts == {-1, 0, 1}

\* the desiredCount values callers pass to Update
UpdateCounts == {-1, 1}

VARIABLES
    heap,      \* ObjId -> the content of that map[string]interface{}
    schemas,   \* DB.schemas: class -> SchemaDB
    mutex,     \* DB.mutex: Nil when free, else the caller holding it
    pc,        \* caller -> where it is in its store operation
    call,      \* caller -> the operation and the arguments of its call
    ret        \* caller -> what the call returned, and the store it saw

dbVars == <<heap, schemas, mutex, pc, call, ret>>

VARIABLES
    chunks,    \* InitFromFile: the sub-documents of the plan file
    CaseMap,   \* TestPlan.CaseMap of the plan being loaded
    CaseList,  \* TestPlan.CaseList of the plan being loaded
    loadPc,    \* InitFromFile: "idle", "loop" or "done"
    loadIdx,   \* InitFromFile: the chunks handed to AddFromString so far
    loadErr,   \* InitFromFile: the error it returned
    addErrs    \* the errors AddFromString returned to InitFromFile, in order

loadVars == <<chunks, CaseMap, CaseList, loadPc, loadIdx, loadErr, addErrs>>

VARIABLES
    runPc,     \* TestPlan.Run: "idle", "running", "returning", "done", or how
               \* the process died: "panic", "overflow"
    runName,   \* the case name the top-level TestPlan.Run was called with
    stack,     \* the TestPlan.Run calls in progress: case name, index of its test
    trace,     \* the tests run and the lookups failed so far, in order
    runErr     \* the error being returned, at "done" the error Run returned

runVars == <<runPc, runName, stack, trace, runErr>>

VARIABLES
    genPc,     \* the value generator: "idle" or "done"
    genIn,     \* the generator called and the validations it was given
    genOut     \* the float drawn, the value returned and the error returned

genVars == <<genPc, genIn, genOut>>

VARIABLES
    iterPc,    \* SchemaRef.Iterate: "idle", "running" or "done"
    iterIn,    \* the document, the starting node, followWeak, the visitor
    iterStack, \* the nodes the pending Iterate calls and loops go on to
    iterLog,   \* the calls of iterFunc so far
    iterErr    \* the error Iterate returned

iterVars == <<iterPc, iterIn, iterStack, iterLog, iterErr>>

VARIABLES
    parsePc,   \* SchemaRef.Parses: "idle" or "done"
    parseIn,   \* the schema and the object parsed against it
    parseOut   \* the error returned and the collection filled

parseVars == <<parsePc, parseIn, parseOut>>

vars == <<dbVars, loadVars, runVars, genVars, iterVars, parseVars>>

\* the variables of the other subsystems, which a store step leaves alone
notDb == <<loadVars, runVars, genVars, iterVars, parseVars>>

notLoad == <<dbVars, runVars, genVars, iterVars, parseVars>>

notRun == <<dbVars, chunks, loadPc, loadIdx, loadErr, addErrs, genVars,
            iterVars, parseVars>>

notGen == <<dbVars, loadVars, runVars, iterVars, parseVars>>

notIter == <<dbVars, loadVars, runVars, genVars, parseVars>>

notParse == <<dbVars, loadVars, runVars, genVars, iterVars>>

\* the value of a missing map key (Go's nil map / nil interface / nil error)
Nil == "nil"

\* no plan file has been loaded
LoadIdle ==
    /\ chunks = <<>>
    /\ CaseMap = <<>>
    /\ CaseList = <<>>
    /\ loadPc = "idle"
    /\ loadIdx = 0
    /\ loadErr = Nil
    /\ addErrs = <<>>

\* no schema is being iterated
IterIdle ==
    /\ iterPc = "idle"
    /\ iterIn = [op |-> "none"]
    /\ iterStack = <<>>
    /\ iterLog = <<>>
    /\ iterErr = Nil

\* no object is being parsed
ParseIdle ==
    /\ parsePc = "idle"
    /\ parseIn = [op |-> "none"]
    /\ parseOut = [err |-> Nil]

\* no value is being generated
GenIdle ==
    /\ genPc = "idle"
    /\ genIn = [op |-> "none"]
    /\ genOut = [err |-> Nil]

\* no test case is being run
RunIdle ==
    /\ runPc = "idle"
    /\ runName = Nil
    /\ stack = <<>>
    /\ trace = <<>>
    /\ runErr = Nil

\* ------------------------------------------------------------------------
\* The object store: helpers
\* ------------------------------------------------------------------------

\* m[k] of a Go map: the zero value when k is missing
MapGet(m, k) == IF k \in DOMAIN m THEN m[k] ELSE Nil

\* mqutil.InterfaceEquals: deep value equality
InterfaceEquals(a, b) == a = b

\* mqutil.MapCombine(dst, src): every field of src is written into dst
MapCombine(dst, src) ==
    [k \in DOMAIN dst \cup DOMAIN src |-> IF k \in DOMAIN src THEN src[k] ELSE dst[k]]

\* MatchAlways
MatchAlways(criteria, existing) == TRUE

\* a caller's MatchFunc: every field of the criteria is in the object, equal
MatchFields(criteria, existing) ==
    \A k \in DOMAIN criteria : k \in DOMAIN existing /\ existing[k] = criteria[k]

MatchFuncs == {"MatchAlways", "MatchFields"}

\* calling a MatchFunc value
ApplyMatch(matches, criteria, existing) ==
    IF matches = "MatchAlways" THEN MatchAlways(criteria, existing)
    ELSE MatchFields(criteria, existing)

\* a mutant of CopyWithoutClass: the copy keeps every key
CopyWithClass(src, className) == src

CopyWithoutClass(src, className) ==
    [k \in DOMAIN src \ {className} |-> src[k]]

\* DBEntry.Matches, h the heap the entry's Data is read from
EntryMatches(entry, h, criteria, associations, matches) ==
    /\ \A className \in DOMAIN associations :
          InterfaceEquals(associations[className], MapGet(entry.Associations, className))
    /\ ApplyMatch(matches, criteria, h[entry.Data])

\* ------------------------------------------------------------------------
\* SchemaDB
\* ------------------------------------------------------------------------

\* SchemaDB.Insert
SchemaInsert(db, obj, associations) ==
    IF ~db.NoHistory
    THEN [db EXCEPT !.Objects = Append(@, [Data |-> obj, Associations |-> associations])]
    ELSE db

\* the loop of SchemaDB.Find from index i on
RECURSIVE FindLoop(_, _, _, _, _, _, _, _)
FindLoop(objs, h, i, result, criteria, associations, matches, desiredCount) ==
    IF i > Len(objs) THEN result
    ELSE IF EntryMatches(objs[i], h, criteria, associations, matches)
         THEN LET r == Append(result, objs[i].Data) IN
              IF desiredCount >= 0 /\ Len(r) >= desiredCount THEN r
              ELSE FindLoop(objs, h, i + 1, r, criteria, associations, matches, desiredCount)
         ELSE FindLoop(objs, h, i + 1, result, criteria, associations, matches, desiredCount)

\* SchemaDB.Find
SchemaFind(db, h, criteria, associations, matches, desiredCount) ==
    FindLoop(db.Objects, h, 1, <<>>, criteria, associations, matches, desiredCount)

\* db.Objects[count:]
SliceFrom(objs, count) == SubSeq(objs, count + 1, Len(objs))

\* a mutant of the compaction: the matching slot is not overwritten by the
\* entry at the front
CompactNoSwap(objs, i, count) == objs

\* db.Objects[i] = db.Objects[count] (i is 1-based here, count 0-based)
Compact(objs, i, count) == [objs EXCEPT ![i] = objs[count + 1]]

\* the loop of SchemaDB.Delete from index i on
RECURSIVE DeleteLoop(_, _, _, _, _, _, _, _)
DeleteLoop(objs, h, i, count, criteria, associations, matches, desiredCount) ==
    IF i > Len(objs) THEN [Objects |-> SliceFrom(objs, count), count |-> count]
    ELSE IF EntryMatches(objs[i], h, criteria, associations, matches)
         THEN LET o2 == Compact(objs, i, count)
                  c2 == count + 1 IN
              IF desiredCount >= 0 /\ c2 >= desiredCount
              THEN [Objects |-> SliceFrom(o2, c2), count |-> c2]
              ELSE DeleteLoop(o2, h, i + 1, c2, criteria, associations, matches, desiredCount)
         ELSE DeleteLoop(objs, h, i + 1, count, criteria, associations, matches, desiredCount)

\* SchemaDB.Delete
SchemaDelete(db, h, criteria, associations, matches, desiredCount) ==
    DeleteLoop(db.Objects, h, 1, 0, criteria, associations, matches, desiredCount)

\* the loop of SchemaDB.Update from index i on; a patch writes through the
\* entry's reference, so the heap is threaded through the loop
RECURSIVE UpdateLoop(_, _, _, _, _, _, _, _, _, _)
UpdateLoop(objs, h, i, count, criteria, associations, matches, newObj, desiredCount, patch) ==
    IF i > Len(objs) THEN [Objects |-> objs, heap |-> h, count |-> count]
    ELSE IF EntryMatches(objs[i], h, criteria, associations, matches)
         THEN LET h2 == IF patch
                        THEN [h EXCEPT ![objs[i].Data] = MapCombine(@, h[newObj])]
                        ELSE h
                  o2 == IF patch THEN objs
                        ELSE [objs EXCEPT ![i].Data = newObj]
                  c2 == count + 1 IN
              IF desiredCount >= 0 /\ c2 >= desiredCount
              THEN [Objects |-> o2, heap |-> h2, count |-> c2]
              ELSE UpdateLoop(o2, h2, i + 1, c2, criteria, associations, matches,
                              newObj, desiredCount, patch)
         ELSE UpdateLoop(objs, h, i + 1, count, criteria, associations, matches,
                         newObj, desiredCount, patch)

\* SchemaDB.Update
SchemaUpdate(db, h, criteria, associations, matches, newObj, desiredCount, patch) ==
    UpdateLoop(db.Objects, h, 1, 0, criteria, associations, matches,
               newObj, desiredCount, patch)

\* ------------------------------------------------------------------------
\* DB: what each handler does between mutex.Lock and the deferred Unlock
\* ------------------------------------------------------------------------

\* DB.Init: one empty SchemaDB per schema of the document
InitSchemas ==
    [c \in Classes |-> [Name |-> c, Schema |-> c, NoHistory |-> FALSE, Objects |-> <<>>]]

\* db.schemas[name] == nil
NoSchema(s, name) == name \notin DOMAIN s

\* DB.Insert
DBInsertBody(s, h, c) ==
    IF NoSchema(s, c.name)
    THEN [schemas |-> s, heap |-> h, val |-> "ErrInternal"]
    ELSE [schemas |-> [s EXCEPT ![c.name] =
                          SchemaInsert(@, c.obj, CopyWithoutClass(c.associations, c.name))],
          heap |-> h, val |-> Nil]

\* DB.Find
DBFindBody(s, h, c) ==
    IF NoSchema(s, c.name)
    THEN [schemas |-> s, heap |-> h, val |-> <<>>]
    ELSE [schemas |-> s, heap |-> h,
          val |-> SchemaFind(s[c.name], h, c.criteria,
                             CopyWithoutClass(c.associations, c.name),
                             c.matches, c.desiredCount)]

\* DB.Delete
DBDeleteBody(s, h, c) ==
    IF NoSchema(s, c.name)
    THEN [schemas |-> s, heap |-> h, val |-> 0]
    ELSE LET r == SchemaDelete(s[c.name], h, c.criteria,
                               CopyWithoutClass(c.associations, c.name),
                               c.matches, c.desiredCount) IN
         [schemas |-> [s EXCEPT ![c.name].Objects = r.Objects],
          heap |-> h, val |-> r.count]

\* DB.Update
DBUpdateBody(s, h, c) ==
    IF NoSchema(s, c.name)
    THEN [schemas |-> s, heap |-> h, val |-> 0]
    ELSE LET r == SchemaUpdate(s[c.name], h, c.criteria,
                               CopyWithoutClass(c.associations, c.name),
                               c.matches, c.newObj, c.desiredCount, c.patch) IN
         [schemas |-> [s EXCEPT ![c.name].Objects = r.Objects],
          heap |-> r.heap, val |-> r.count]

\* DB.GetSchema
DBGetSchemaBody(s, h, c) ==
    IF NoSchema(s, c.name)
    THEN [schemas |-> s, heap |-> h, val |-> "SchemaRef{}"]
    ELSE [schemas |-> s, heap |-> h, val |-> s[c.name].Schema]

\* a mutant of the deferred unlock: the mutex stays with the caller
KeepLocked(m, p) == m

\* db.mutex.Unlock(), deferred: runs on every return of the handler
Unlock(m, p) == Nil

\* the association map with a key for every class
BothAssoc == [c \in {"A", "B"} |-> IF c = "A" THEN "u" ELSE "v"]

\* the calls a caller can make: every combination on class A, and one or a
\* few calls on class B and on the unknown name
InsertCalls ==
    [op : {"Insert"}, name : {"A"}, obj : ObjIds, associations : InsertAssocs]
    \cup [op : {"Insert"}, name : {"B", UnknownClass}, obj : {"o1"},
          associations : {BothAssoc}]

FindCalls ==
    [op : {"Find"}, name : {"A"}, criteria : Criterias,
     associations : QueryAssocs, matches : MatchFuncs, desiredCount : Counts]
    \cup [op : {"Find"}, name : {"B", UnknownClass}, criteria : Criterias,
          associations : QueryAssocs, matches : {"MatchAlways"}, desiredCount : {-1}]

DeleteCalls ==
    [op : {"Delete"}, name : {"A"}, criteria : Criterias,
     associations : QueryAssocs, matches : MatchFuncs, desiredCount : DeleteCounts]
    \cup [op : {"Delete"}, name : {"B", UnknownClass}, criteria : Criterias,
          associations : QueryAssocs, matches : {"MatchAlways"}, desiredCount : {-1}]

UpdateCalls ==
    [op : {"Update"}, name : {"A"}, criteria : Criterias,
     associations : QueryAssocs, matches : MatchFuncs, newObj : ObjIds,
     desiredCount : UpdateCounts, patch : BOOLEAN]
    \cup [op : {"Update"}, name : {"B", UnknownClass}, criteria : Criterias,
          associations : {<<>>}, matches : {"MatchAlways"}, newObj : {"o2"},
          desiredCount : {-1}, patch : BOOLEAN]

GetSchemaCalls == [op : {"GetSchema"}, name : ClassNames]

RECURSIVE SumLen(_, _)
SumLen(s, cs) ==
    IF cs = {} THEN 0
    ELSE LET c == CHOOSE x \in cs : TRUE IN Len(s[c].Objects) + SumLen(s, cs \ {c})

\* the entries the store holds
TotalObjects(s) == SumLen(s, DOMAIN s)

\* ------------------------------------------------------------------------
\* Spec: one caller; a handler locks, runs and unlocks in one step
\* ------------------------------------------------------------------------

Caller == "p1"

Callers == {"p1", "p2"}

NoCall == [op |-> "none"]

NoRet == [val |-> Nil]

DBIdle ==
    /\ heap = InitHeap
    /\ schemas = InitSchemas
    /\ mutex = Nil
    /\ pc = [p \in Callers |-> "idle"]
    /\ call = [p \in Callers |-> NoCall]
    /\ ret = [p \in Callers |-> NoRet]

\* the handler of call c run by caller p with the mutex free: e is what its
\* body does
Handle(p, c, e) ==
    /\ pc[p] = "idle"
    /\ mutex = Nil
    /\ schemas' = e.schemas
    /\ heap' = e.heap
    /\ call' = [call EXCEPT ![p] = c]
    /\ ret' = [ret EXCEPT ![p] = [val |-> e.val, pre |-> schemas, preHeap |-> heap]]
    /\ pc' = [pc EXCEPT ![p] = "done"]
    /\ mutex' = Unlock(mutex, p)
    /\ UNCHANGED notDb

Insert ==
    \E c \in InsertCalls :
        /\ TotalObjects(schemas) < MaxObjects
        /\ Handle(Caller, c, DBInsertBody(schemas, heap, c))

Find == \E c \in FindCalls : Handle(Caller, c, DBFindBody(schemas, heap, c))

Delete == \E c \in DeleteCalls : Handle(Caller, c, DBDeleteBody(schemas, heap, c))

Update == \E c \in UpdateCalls : Handle(Caller, c, DBUpdateBody(schemas, heap, c))

GetSchema == \E c \in GetSchemaCalls : Handle(Caller, c, DBGetSchemaBody(schemas, heap, c))

\* the caller has taken the result of its call and is free to call again
Return(p) ==
    /\ pc[p] = "done"
    /\ pc' = [pc EXCEPT ![p] = "idle"]
    /\ call' = [call EXCEPT ![p] = NoCall]
    /\ ret' = [ret EXCEPT ![p] = NoRet]
    /\ UNCHANGED <<heap, schemas, mutex, notDb>>

Returned == Return(Caller)

DBInit == DBIdle /\ LoadIdle /\ RunIdle /\ GenIdle /\ IterIdle /\ ParseIdle

Init == DBInit

Next == Insert \/ Find \/ Delete \/ Update \/ GetSchema \/ Returned

Spec == Init /\ [][Next]_vars

\* ------------------------------------------------------------------------
\* SpecConc: concurrent callers; a handler waits for the mutex, runs its
\* body holding it, and the deferred Unlock runs as it returns
\* ------------------------------------------------------------------------

\* the calls the concurrent callers make: each handler on a known and on an
\* unknown schema name
ConcCalls ==
    [op : {"Insert"}, name : {"A", UnknownClass}, obj : {"o1"}, associations : {<<>>}]
    \cup [op : {"Find"}, name : {"A", UnknownClass}, criteria : Criterias,
          associations : {<<>>}, matches : {"MatchAlways"}, desiredCount : {-1}]
    \cup [op : {"Delete"}, name : {"A", UnknownClass}, criteria : Criterias,
          associations : {<<>>}, matches : {"MatchAlways"}, desiredCount : {1}]
    \cup [op : {"Update"}, name : {"A", UnknownClass}, criteria : Criterias,
          associations : {<<>>}, matches : {"MatchAlways"}, newObj : {"o2"},
          desiredCount : {1}, patch : {FALSE}]
    \cup [op : {"GetSchema"}, name : {"A", UnknownClass}]

\* a caller calls a handler and reaches db.mutex.Lock()
ConcCall(p) ==
    /\ pc[p] = "idle"
    /\ \E c \in ConcCalls :
          /\ c.op = "Insert" => TotalObjects(schemas) < MaxObjects
          /\ call' = [call EXCEPT ![p] = c]
    /\ pc' = [pc EXCEPT ![p] = "lock"]
    /\ UNCHANGED <<heap, schemas, mutex, ret, notDb>>

\* db.mutex.Lock() returns: the mutex was free
ConcLock(p) ==
    /\ pc[p] = "lock"
    /\ mutex = Nil
    /\ mutex' = p
    /\ pc' = [pc EXCEPT ![p] = "body"]
    /\ UNCHANGED <<heap, schemas, call, ret, notDb>>

\* the body of the handler of p's call runs up to its return statement
ConcBody(p, op, e) ==
    /\ pc[p] = "body"
    /\ call[p].op = op
    /\ schemas' = e.schemas
    /\ heap' = e.heap
    /\ ret' = [ret EXCEPT ![p] = [val |-> e.val, pre |-> schemas, preHeap |-> heap]]
    /\ pc' = [pc EXCEPT ![p] = "unlock"]
    /\ UNCHANGED <<mutex, call, notDb>>

ConcInsert(p) == ConcBody(p, "Insert", DBInsertBody(schemas, heap, call[p]))

ConcFind(p) == ConcBody(p, "Find", DBFindBody(schemas, heap, call[p]))

ConcDelete(p) == ConcBody(p, "Delete", DBDeleteBody(schemas, heap, call[p]))

ConcUpdate(p) == ConcBody(p, "Update", DBUpdateBody(schemas, heap, call[p]))

ConcGetSchema(p) == ConcBody(p, "GetSchema", DBGetSchemaBody(schemas, heap, call[p]))

\* the deferred db.mutex.Unlock() runs and the handler returns
ConcUnlock(p) ==
    /\ pc[p] = "unlock"
    /\ mutex' = Unlock(mutex, p)
    /\ pc' = [pc EXCEPT ![p] = "done"]
    /\ UNCHANGED <<heap, schemas, call, ret, notDb>>

ConcStep(p) ==
    \/ ConcInsert(p) \/ ConcFind(p) \/ ConcDelete(p) \/ ConcUpdate(p)
    \/ ConcGetSchema(p) \/ ConcUnlock(p)

NextConc == \E p \in Callers : ConcCall(p) \/ ConcLock(p) \/ ConcStep(p) \/ Return(p)

\* a goroutine that can run does run (WF), and sync.Mutex hands the lock to
\* a waiter that keeps failing to get it (starvation mode): SF on ConcLock
FairConc ==
    \A p \in Callers : WF_vars(ConcStep(p)) /\ SF_vars(ConcLock(p))

SpecConc == DBInit /\ [][NextConc]_vars /\ FairConc

\* the callers executing a handler's body
InBody == {p \in Callers : pc[p] \in {"body", "unlock"}}

\* at most one caller is in a body, and the mutex is held by exactly that one
MutualExclusion ==
    /\ Cardinality(InBody) <= 1
    /\ \A p \in Callers : (mutex = p) <=> (p \in InBody)
    /\ mutex \in Callers \cup {Nil}

\* C3 (store-wide mutual exclusion): under any interleaving at most one
\* caller executes a handler's body, the mutex is free after every return
\* (the early returns for an unknown schema name too), and a caller waiting
\* for the mutex eventually gets it.
C3_MutualExclusion ==
    /\ []MutualExclusion
    /\ \A p \in Callers : (pc[p] = "lock") ~> (pc[p] = "body")

\* C3 witness: one caller is returning early from a handler called with an
\* unknown schema name while another waits for the mutex
C3_Witness ==
    \E p, q \in Callers :
        /\ p # q
        /\ pc[p] = "unlock" /\ call[p].name = UnknownClass /\ call[p].op = "Delete"
        /\ pc[q] = "lock"
        /\ mutex = p

\* ------------------------------------------------------------------------
\* Claims about the store, one caller
\* ------------------------------------------------------------------------

\* the callers whose call has run and whose result is still in hand
Ran(p, op) == pc[p] \in {"unlock", "done"} /\ call[p].op = op

\* C1 (association isolation): after any sequence of Insert, Update and
\* Delete no entry stored in the collection of class A has an association
\* keyed by A, and an Insert into a known class has appended the object with
\* the caller's associations less the one keyed by the class itself.
C1_AssociationIsolation ==
    /\ \A c \in DOMAIN schemas : \A i \in 1..Len(schemas[c].Objects) :
          c \notin DOMAIN schemas[c].Objects[i].Associations
    /\ \A p \in Callers :
          (Ran(p, "Insert") /\ call[p].name \in Classes) =>
             LET objs == schemas[call[p].name].Objects
                 e == objs[Len(objs)] IN
             /\ Len(objs) = Len(ret[p].pre[call[p].name].Objects) + 1
             /\ e.Data = call[p].obj
             /\ DOMAIN e.Associations = DOMAIN call[p].associations \ {call[p].name}
             /\ \A k \in DOMAIN e.Associations : e.Associations[k] = call[p].associations[k]

\* C1 witness: Insert("A", o, {A: u, B: v}) has run and the stored entry
\* kept B
C1_Witness ==
    \E p \in Callers :
        /\ Ran(p, "Insert") /\ call[p].name = "A"
        /\ DOMAIN call[p].associations = {"A", "B"}
        /\ LET objs == schemas["A"].Objects IN
           Len(objs) >= 2 /\ "B" \in DOMAIN objs[Len(objs)].Associations

\* the supplied associations an entry can record: those of other classes
Supplied(c) == [k \in DOMAIN c.associations \ {c.name} |-> c.associations[k]]

\* an entry matches call c as the claims put it: every supplied association
\* equals the one the entry recorded, and matchFn(criteria, data) is true
ClaimMatches(e, h, c) ==
    /\ \A k \in DOMAIN Supplied(c) :
          k \in DOMAIN e.Associations /\ e.Associations[k] = Supplied(c)[k]
    /\ IF c.matches = "MatchAlways" THEN TRUE
       ELSE \A k \in DOMAIN c.criteria :
               k \in DOMAIN h[e.Data] /\ h[e.Data][k] = c.criteria[k]

\* the data of the entries of objs[1..n] that match call c, in order
RECURSIVE MatchingData(_, _, _, _)
MatchingData(objs, n, h, c) ==
    IF n = 0 THEN <<>>
    ELSE IF ClaimMatches(objs[n], h, c)
         THEN Append(MatchingData(objs, n - 1, h, c), objs[n].Data)
         ELSE MatchingData(objs, n - 1, h, c)

Min(a, b) == IF a <= b THEN a ELSE b

\* C9 (Find): the result is the data of the matching entries in collection
\* order, all of them when d = -1 and the first min(d, m) when d >= 0, so
\* never more than d; the collection is unchanged.
C9_FindFirstMatches ==
    \A p \in Callers :
        (Ran(p, "Find") /\ call[p].name \in Classes) =>
           LET objs == ret[p].pre[call[p].name].Objects
               m == MatchingData(objs, Len(objs), ret[p].preHeap, call[p])
               d == call[p].desiredCount IN
           /\ ret[p].val = IF d = -1 THEN m ELSE SubSeq(m, 1, Min(d, Len(m)))
           /\ d >= 0 => Len(ret[p].val) <= d
           /\ schemas = ret[p].pre

\* how many entries of objs equal e
CountOf(objs, e) == Cardinality({i \in 1..Len(objs) : objs[i] = e})

\* C10 (Delete, desiredCount = -1): the collection afterwards holds, as a
\* multiset, exactly the entries that did not match; the returned count is
\* the number of matching entries and the decrease of the size; nothing else
\* changes.
C10_DeleteExactlyMatching ==
    \A p \in Callers :
        (Ran(p, "Delete") /\ call[p].name \in Classes /\ call[p].desiredCount = -1) =>
           LET pre == ret[p].pre[call[p].name].Objects
               post == schemas[call[p].name].Objects
               h == ret[p].preHeap
               hit == {i \in 1..Len(pre) : ClaimMatches(pre[i], h, call[p])} IN
           /\ \A i \in 1..Len(pre) :
                 CountOf(post, pre[i]) =
                    IF i \in hit THEN 0
                    ELSE Cardinality({j \in 1..Len(pre) : pre[j] = pre[i]})
           /\ \A i \in 1..Len(post) : \E j \in 1..Len(pre) : pre[j] = post[i]
           /\ ret[p].val = Cardinality(hit)
           /\ ret[p].val = Len(pre) - Len(post)
           /\ \A c \in Classes \ {call[p].name} : schemas[c] = ret[p].pre[c]
           /\ heap = h

\* C10 witness: a Delete with desiredCount = -1 has run on a collection where
\* a surviving entry stood before a matching one and another entry after it
C10_Witness ==
    \E p \in Callers :
        /\ Ran(p, "Delete") /\ call[p].name \in Classes /\ call[p].desiredCount = -1
        /\ LET pre == ret[p].pre[call[p].name].Objects
               h == ret[p].preHeap IN
           /\ Len(pre) >= 3
           /\ \E i, j \in 1..Len(pre) :
                 /\ i < j /\ j < Len(pre)
                 /\ ~ClaimMatches(pre[i], h, call[p])
                 /\ ClaimMatches(pre[j], h, call[p])
           /\ Len(schemas[call[p].name].Objects) >= 1

\* ------------------------------------------------------------------------
\* SpecLoad: TestPlan.InitFromFile, AddFromString, Add
\* ------------------------------------------------------------------------

\* most sub-documents of a plan file
MaxChunks == 2

\* the case names the plan files use
LoadNames == {"a", "b"}

\* a Test of the DSL (its Parameters are left out: loading does not read them)
LoadTest(name, method, ref) ==
    [Name |-> name, Path |-> "/p", Method |-> method, Ref |-> ref]

\* the test cases the plan files hold
LoadCases ==
    { << LoadTest("t1", "get", "") >>,
      << LoadTest("t2", "", "a") >> }

\* strings.ToUpper on the method strings used
ToUpper(m) == IF m = "get" THEN "GET" ELSE m

\* what yaml.Unmarshal makes of a sub-document: an error, or a map from case
\* name to TestCase (the empty map for an empty sub-document)
Chunks ==
    { [valid |-> FALSE, cases |-> <<>>] }
    \cup { [valid |-> TRUE, cases |-> f] :
             f \in UNION { [S -> LoadCases] : S \in SUBSET LoadNames } }

\* the plan files: up to MaxChunks sub-documents
Docs == UNION { [1..n -> Chunks] : n \in 0..MaxChunks }

\* the orders a Go map of the names S can be ranged over
Orders(S) ==
    { o \in [1..Cardinality(S) -> S] : \A i, j \in 1..Cardinality(S) : o[i] = o[j] => i = j }

\* the loop of AddFromString over a test case: methods are upper-cased
Normalise(testCase) ==
    [i \in 1..Len(testCase) |-> [testCase[i] EXCEPT !.Method = ToUpper(@)]]

\* TestPlan.Add
Add(plan, name, testCase) ==
    IF name \in DOMAIN plan.CaseMap
    THEN [plan EXCEPT !.err = "Duplicate name"]
    ELSE [CaseMap |-> [n \in DOMAIN plan.CaseMap \cup {name} |->
                          IF n = name THEN testCase ELSE plan.CaseMap[n]],
          CaseList |-> Append(plan.CaseList, testCase),
          err |-> Nil]

\* the loop of AddFromString over caseMap in the order o, from its i-th name
RECURSIVE AddLoop(_, _, _, _)
AddLoop(plan, caseMap, o, i) ==
    IF i > Len(o) THEN [plan EXCEPT !.err = Nil]
    ELSE LET r == Add(plan, o[i], Normalise(caseMap[o[i]])) IN
         IF r.err # Nil THEN r
         ELSE AddLoop(r, caseMap, o, i + 1)

\* TestPlan.AddFromString, o the order the map is ranged over
AddFromString(plan, chunk, o) ==
    IF ~chunk.valid THEN [plan EXCEPT !.err = "yaml error"]
    ELSE AddLoop(plan, chunk.cases, o, 1)

\* InitFromFile up to its loop: the plan is emptied and the file is read
InitFromFile ==
    /\ loadPc \in {"idle", "done"}
    /\ CaseMap' = <<>>
    /\ CaseList' = <<>>
    /\ addErrs' = <<>>
    /\ loadIdx' = 0
    /\ \/ /\ chunks' = <<>>
          /\ loadErr' = "ReadFile error"
          /\ loadPc' = "done"
       \/ /\ chunks' \in Docs
          /\ loadErr' = Nil
          /\ loadPc' = "loop"
    /\ UNCHANGED notLoad

\* one turn of InitFromFile's loop: plan.AddFromString(chunk), whose error is
\* not looked at
InitFromFileChunk ==
    /\ loadPc = "loop"
    /\ loadIdx < Len(chunks)
    /\ \E o \in Orders(DOMAIN chunks[loadIdx + 1].cases) :
          LET r == AddFromString([CaseMap |-> CaseMap, CaseList |-> CaseList, err |-> Nil],
                                 chunks[loadIdx + 1], o) IN
          /\ CaseMap' = r.CaseMap
          /\ CaseList' = r.CaseList
          /\ addErrs' = Append(addErrs, r.err)
    /\ loadIdx' = loadIdx + 1
    /\ UNCHANGED <<chunks, loadPc, loadErr, notLoad>>

\* InitFromFile returns nil after its loop
InitFromFileReturn ==
    /\ loadPc = "loop"
    /\ loadIdx = Len(chunks)
    /\ loadErr' = Nil
    /\ loadPc' = "done"
    /\ UNCHANGED <<chunks, CaseMap, CaseList, loadIdx, addErrs, notLoad>>

NextLoad == InitFromFile \/ InitFromFileChunk \/ InitFromFileReturn

SpecLoad == Init /\ [][NextLoad]_vars

\* the names two sub-documents of the file both give a case
DuplicateNames ==
    { n \in LoadNames : \E i, j \in 1..Len(chunks) :
          /\ i < j
          /\ chunks[i].valid /\ chunks[j].valid
          /\ n \in DOMAIN chunks[i].cases /\ n \in DOMAIN chunks[j].cases }

\* C2 (plan isolation): loading a plan document with two cases of the same
\* name fails, and neither of the two cases is in the plan afterwards.
C2_DuplicateRejected ==
    (loadPc = "done" /\ DuplicateNames # {}) =>
       /\ loadErr # Nil
       /\ \A n \in DuplicateNames : n \notin DOMAIN CaseMap
       /\ Len(CaseList) = Cardinality(DOMAIN CaseMap)

\* ------------------------------------------------------------------------
\* SpecRun: TestPlan.Run, Test.Run, ResolveParameters
\* ------------------------------------------------------------------------

\* most tests of a test case
MaxTests == 2

\* most TestPlan.Run calls nested before the goroutine's stack is taken to
\* be exhausted (a plan of two cases nests more than two only in a cycle)
MaxDepth == 3

\* a parameter of an operation of the swagger document
ParamSpec(name, hasSchema, hasEnum, type) ==
    [Name |-> name, Schema |-> hasSchema, Enum |-> hasEnum, Type |-> type]

\* swagger.Paths.Paths: path -> method -> the operation's parameters
SwaggerPaths ==
    [path \in {"/p", "/q"} |->
        IF path = "/p"
        THEN [m \in {"GET", "POST"} |-> << ParamSpec("status", FALSE, TRUE, "string") >>]
        ELSE [m \in {"GET"} |-> << ParamSpec("id", FALSE, FALSE, "") >>]]

\* the methods getOperationByMethod knows
KnownMethods == {"GET", "POST", "PUT", "DELETE", "PATCH", "HEAD", "OPTIONS"}

\* getOperationByMethod(&swagger.Paths.Paths[path], method): the operation's
\* parameters, found FALSE for a nil operation
GetOperationByMethod(path, method) ==
    IF method \in KnownMethods /\ path \in DOMAIN SwaggerPaths
       /\ method \in DOMAIN SwaggerPaths[path]
    THEN [found |-> TRUE, Parameters |-> SwaggerPaths[path][method]]
    ELSE [found |-> FALSE, Parameters |-> <<>>]

\* generateParameter: Nil, an error, or "panic" (generateBySchema)
GenerateParameter(paramSpec) ==
    IF paramSpec.Schema THEN "panic"
    ELSE IF paramSpec.Enum THEN Nil
    ELSE IF paramSpec.Type = "" THEN "ErrInvalid"
    ELSE Nil

\* the loop of ResolveParameters from the i-th parameter on; t.Parameters is
\* params: written FALSE for a nil map, keys its keys
RECURSIVE ResolveLoop(_, _, _)
ResolveLoop(ps, params, i) ==
    IF i > Len(ps) THEN [err |-> Nil, Parameters |-> params, gen |-> FALSE]
    ELSE IF ps[i].Name \in params.keys THEN ResolveLoop(ps, params, i + 1)
    ELSE LET e == GenerateParameter(ps[i]) IN
         IF e # Nil THEN [err |-> e, Parameters |-> params, gen |-> FALSE]
         ELSE IF ~params.made
              THEN [err |-> "panic", Parameters |-> params, gen |-> TRUE]
              ELSE [err |-> Nil,
                    Parameters |-> [params EXCEPT !.keys = @ \cup {ps[i].Name}],
                    gen |-> TRUE]

\* Test.ResolveParameters
ResolveParameters(t) ==
    LET op == GetOperationByMethod(t.Path, t.Method) IN
    IF ~op.found
    THEN [err |-> "ErrNotFound", Parameters |-> t.Parameters, gen |-> FALSE]
    ELSE ResolveLoop(op.Parameters, t.Parameters, 1)

\* a Test of a loaded plan
RunTestOf(path, method, ref, made, keys) ==
    [Name |-> "t", Path |-> path, Method |-> method, Ref |-> ref,
     Parameters |-> [made |-> made, keys |-> keys]]

\* the tests the plans are made of: a GET with an empty, a complete and a nil
\* parameters map, a POST, a path the document lacks, a parameter that cannot
\* be generated, and references to the cases a and b
RunTests ==
    { RunTestOf("/p", "GET", "", TRUE, {}),
      RunTestOf("/p", "GET", "", TRUE, {"status"}),
      RunTestOf("/p", "GET", "", FALSE, {}),
      RunTestOf("/p", "POST", "", TRUE, {}),
      RunTestOf("/x", "GET", "", TRUE, {}),
      RunTestOf("/q", "GET", "", TRUE, {}),
      RunTestOf("", "", "a", FALSE, {}),
      RunTestOf("", "", "b", FALSE, {}) }

\* the cases of name a: one to MaxTests tests
CasesA == UNION { [1..n -> RunTests] : n \in 1..MaxTests }

\* the cases of name b: no test or one
CasesB == UNION { [1..n -> RunTests] : n \in 0..1 }

\* the loaded plans: a case a, and no case b or a case b
RunPlans ==
    { [n \in {"a"} |-> ca] : ca \in CasesA }
    \cup { [n \in {"a", "b"} |-> IF n = "a" THEN ca ELSE cb] : ca \in CasesA, cb \in CasesB }

\* the names TestPlan.Run is called with
RunNames == {"a", "b", "zz"}

InitRun ==
    /\ DBIdle
    /\ chunks = <<>> /\ loadPc = "done" /\ loadIdx = 0 /\ loadErr = Nil /\ addErrs = <<>>
    /\ CaseMap \in RunPlans
    /\ CaseList = [i \in 1..Cardinality(DOMAIN CaseMap) |->
                      IF i = 1 THEN CaseMap["a"] ELSE CaseMap["b"]]
    /\ RunIdle
    /\ GenIdle
    /\ IterIdle
    /\ ParseIdle

\* tc, ok := plan.CaseMap[name]; !ok || len(tc) == 0
NotFound(name) == name \notin DOMAIN CaseMap \/ Len(CaseMap[name]) = 0

Event(name, idx, err, gen, http) ==
    [pos |-> <<name, idx>>, err |-> err, gen |-> gen, http |-> http]

\* a mutant of the loop's error check: the loop goes on to the next test
AbortsNever(err) == FALSE

\* if err != nil { return err } in the loop of TestPlan.Run
Aborts(err) == err # Nil

\* the top-level call of TestPlan.Run(name)
RunCall ==
    /\ runPc = "idle"
    /\ \E name \in RunNames :
          /\ runName' = name
          /\ IF NotFound(name)
             THEN /\ trace' = Append(trace, Event(name, 0, "not found", FALSE, FALSE))
                  /\ runErr' = "not found"
                  /\ runPc' = "done"
                  /\ stack' = stack
             ELSE /\ stack' = << [name |-> name, idx |-> 1] >>
                  /\ runPc' = "running"
                  /\ UNCHANGED <<trace, runErr>>
    /\ UNCHANGED <<CaseMap, CaseList, notRun>>

\* what the loop of the TestPlan.Run on top of the stack does with the error
\* err its current test returned
AfterTest(err) ==
    LET f == stack[Len(stack)] IN
    IF Aborts(err)
    THEN /\ stack' = SubSeq(stack, 1, Len(stack) - 1)
         /\ runErr' = err
         /\ runPc' = IF Len(stack) = 1 THEN "done" ELSE "returning"
    ELSE /\ stack' = [stack EXCEPT ![Len(stack)].idx = f.idx + 1]
         /\ runErr' = Nil
         /\ runPc' = "running"

\* Test.Run of a test with a ref: plan.Run(t.Ref) is called
RunRef ==
    /\ runPc = "running"
    /\ LET f == stack[Len(stack)] IN
       /\ f.idx <= Len(CaseMap[f.name])
       /\ LET t == CaseMap[f.name][f.idx] IN
          /\ t.Ref # ""
          /\ IF NotFound(t.Ref)
             THEN /\ trace' = Append(trace, Event(t.Ref, 0, "not found", FALSE, FALSE))
                  /\ AfterTest("not found")
             ELSE IF Len(stack) >= MaxDepth
                  THEN /\ runPc' = "overflow"
                       /\ UNCHANGED <<stack, trace, runErr>>
                  ELSE /\ stack' = Append(stack, [name |-> t.Ref, idx |-> 1])
                       /\ UNCHANGED <<runPc, trace, runErr>>
    /\ UNCHANGED <<runName, CaseMap, CaseList, notRun>>

\* Test.Run of a test without ref: the parameters are resolved and the
\* request is sent; sent says whether the transport returned no error
RunTest ==
    /\ runPc = "running"
    /\ LET f == stack[Len(stack)] IN
       /\ f.idx <= Len(CaseMap[f.name])
       /\ LET t == CaseMap[f.name][f.idx]
              r == ResolveParameters(t) IN
          /\ t.Ref = ""
          /\ CaseMap' = [CaseMap EXCEPT ![f.name][f.idx].Parameters = r.Parameters]
          /\ IF r.err = "panic"
             THEN /\ trace' = Append(trace, Event(f.name, f.idx, "panic", r.gen, FALSE))
                  /\ runPc' = "panic"
                  /\ UNCHANGED <<stack, runErr>>
             ELSE IF r.err # Nil
             THEN /\ trace' = Append(trace, Event(f.name, f.idx, r.err, r.gen, FALSE))
                  /\ AfterTest(r.err)
             ELSE IF t.Method = "GET"
             THEN \E sent \in BOOLEAN :
                     LET err == IF sent THEN Nil ELSE "transport error" IN
                     /\ trace' = Append(trace, Event(f.name, f.idx, err, r.gen, TRUE))
                     /\ AfterTest(err)
             ELSE /\ trace' = Append(trace, Event(f.name, f.idx, "unknown method", r.gen, FALSE))
                  /\ AfterTest("unknown method")
    /\ UNCHANGED <<runName, CaseList, notRun>>

\* the loop of the TestPlan.Run on top of the stack is over: return nil
RunLoopEnd ==
    /\ runPc = "running"
    /\ LET f == stack[Len(stack)] IN f.idx > Len(CaseMap[f.name])
    /\ stack' = SubSeq(stack, 1, Len(stack) - 1)
    /\ runErr' = Nil
    /\ runPc' = IF Len(stack) = 1 THEN "done" ELSE "returning"
    /\ UNCHANGED <<runName, trace, CaseMap, CaseList, notRun>>

\* plan.Run(t.Ref) has returned runErr to the Test.Run that called it, which
\* returns it to the loop of its TestPlan.Run
RunReturn ==
    /\ runPc = "returning"
    /\ AfterTest(runErr)
    /\ UNCHANGED <<runName, trace, CaseMap, CaseList, notRun>>

NextRun == RunCall \/ RunRef \/ RunTest \/ RunLoopEnd \/ RunReturn

SpecRun == InitRun /\ [][NextRun]_vars

\* the tests of seq[1..n], flattened
RECURSIVE Flat(_, _)
RECURSIVE FlatTests(_, _, _)

\* the positions TestPlan.Run(name) visits when no test fails, in order, d
\* the calls that may still nest: <<name, 0>> is the failed lookup of name,
\* <<name, -1>> the call the stack has no room for
Flat(name, d) ==
    IF NotFound(name) THEN << <<name, 0>> >>
    ELSE IF d = 0 THEN << <<name, -1>> >>
    ELSE FlatTests(name, Len(CaseMap[name]), d)

FlatTests(name, n, d) ==
    IF n = 0 THEN <<>>
    ELSE FlatTests(name, n - 1, d) \o
         (IF CaseMap[name][n].Ref # "" THEN Flat(CaseMap[name][n].Ref, d - 1)
          ELSE << <<name, n>> >>)

\* C4 (Run stops at the first error): the tests of the named case run in list
\* order, references expanded in place; no test runs after one that returned
\* an error (no parameter generated, no request sent), also when the failing
\* test was reached through a ref; Run returns that error; with no error
\* every test has run.
C4_StopsAtFirstError ==
    runPc # "idle" =>
       LET flat == Flat(runName, MaxDepth)
           n == Len(trace) IN
       /\ n <= Len(flat)
       /\ \A i \in 1..n : trace[i].pos = flat[i]
       /\ \A i \in 1..(n - 1) : trace[i].err = Nil
       /\ (n > 0 /\ trace[n].err \notin {Nil, "panic"}) =>
             /\ runPc \in {"returning", "done"}
             /\ runErr = trace[n].err
       /\ runPc = "done" =>
             /\ stack = <<>>
             /\ n > 0 /\ runErr = trace[n].err
             /\ runErr = Nil => n = Len(flat)

\* C4 witness: Run has returned the error of a test of a referenced case, and
\* tests of the referring case were left
C4_Witness ==
    /\ runPc = "done" /\ runErr # Nil
    /\ LET n == Len(trace) IN
       /\ n >= 1
       /\ trace[n].pos[1] # runName /\ trace[n].pos[2] >= 1
       /\ n < Len(Flat(runName, MaxDepth))

\* ------------------------------------------------------------------------
\* SpecGen: generateFloat, generateInt
\* ------------------------------------------------------------------------

\* float64 values are fixed-point numbers, Scale units to 1.0: the 0.01 of
\* generateFloat is one unit
Scale == 100

\* the declared bounds are the integers -MaxAbs..MaxAbs
MaxAbs == 3

Abs(x) == IF x < 0 THEN -x ELSE x

\* a *float64 of the validations: nil, or one of the bounds
Bounds ==
    { [set |-> FALSE, v |-> 0] }
    \cup { [set |-> TRUE, v |-> k * Scale] : k \in -MaxAbs..MaxAbs }

\* spec.CommonValidations, the fields the generators read
Validations ==
    [Minimum : Bounds, Maximum : Bounds,
     ExclusiveMinimum : BOOLEAN, ExclusiveMaximum : BOOLEAN]

\* realmin of generateFloat before the realmin >= realmax test
RealMin(v) ==
    IF v.Minimum.set
    THEN v.Minimum.v + (IF v.ExclusiveMinimum THEN Scale \div 100 ELSE 0)
    ELSE 0

\* realmax of generateFloat before the realmin >= realmax test
RealMax(v) ==
    IF v.Maximum.set
    THEN v.Maximum.v - (IF v.ExclusiveMaximum THEN Scale \div 100 ELSE 0)
    ELSE 0

\* generateFloat up to its return statement: the interval drawn from, or the
\* error
FloatRange(v) ==
    LET realmin == RealMin(v)
        realmax == RealMax(v) IN
    IF realmin >= realmax
    THEN IF ~v.Minimum.set /\ ~v.Maximum.set
         THEN [err |-> Nil, realmin |-> -Scale, realmax |-> Scale]
         ELSE IF v.Minimum.set
         THEN [err |-> Nil, realmin |-> realmin, realmax |-> realmin + Abs(realmin)]
         ELSE IF v.Maximum.set
         THEN [err |-> Nil, realmin |-> realmax - Abs(realmax), realmax |-> realmax]
         ELSE [err |-> "ErrInvalid", realmin |-> realmin, realmax |-> realmax]
    ELSE [err |-> Nil, realmin |-> realmin, realmax |-> realmax]

\* the values rand.Float64()*(realmax-realmin) + realmin can take, with
\* rand.Float64() in [0, 1)
Draws(realmin, realmax) ==
    IF realmax > realmin THEN realmin..(realmax - 1) ELSE {realmin}

\* int64(f): truncation toward zero
Trunc(f) == IF f >= 0 THEN f \div Scale ELSE -((-f) \div Scale)

\* generateInt after generateFloat returned f
IntOf(v, f) ==
    LET i == Trunc(f) IN
    IF v.Minimum.set /\ i <= Trunc(v.Minimum.v) THEN i + 1 ELSE i

\* generateFloat(v)
GenerateFloat ==
    /\ genPc = "idle"
    /\ \E v \in Validations :
          LET r == FloatRange(v) IN
          /\ genIn' = [op |-> "generateFloat", v |-> v]
          /\ IF r.err # Nil
             THEN genOut' = [err |-> r.err, f |-> 0, i |-> 0]
             ELSE \E f \in Draws(r.realmin, r.realmax) :
                     genOut' = [err |-> Nil, f |-> f, i |-> 0]
    /\ genPc' = "done"
    /\ UNCHANGED notGen

\* generateInt(v)
GenerateInt ==
    /\ genPc = "idle"
    /\ \E v \in Validations :
          LET r == FloatRange(v) IN
          /\ genIn' = [op |-> "generateInt", v |-> v]
          /\ IF r.err # Nil
             THEN genOut' = [err |-> r.err, f |-> 0, i |-> 0]
             ELSE \E f \in Draws(r.realmin, r.realmax) :
                     genOut' = [err |-> Nil, f |-> f, i |-> IntOf(v, f)]
    /\ genPc' = "done"
    /\ UNCHANGED notGen

\* the declared item counts are -1..MaxItemCount
MaxItemCount == 3

\* a *int64 of the validations: nil, or one of the counts
ItemCounts ==
    { [set |-> FALSE, v |-> 0] }
    \cup { [set |-> TRUE, v |-> k] : k \in -1..MaxItemCount }

\* the validations of an array: no numeric bounds, any item counts
ArrayValidations ==
    [Minimum : {[set |-> FALSE, v |-> 0]}, Maximum : {[set |-> FALSE, v |-> 0]},
     ExclusiveMinimum : {FALSE}, ExclusiveMaximum : {FALSE},
     MinItems : ItemCounts, MaxItems : ItemCounts]

\* maxItems and minItems of generateArray: 0 for nil and for a negative count
ItemsOf(count) == IF count.set /\ count.v >= 0 THEN count.v ELSE 0

\* maxDiff of generateArray
MaxDiff(v) ==
    LET d == ItemsOf(v.MaxItems) - ItemsOf(v.MinItems) IN
    IF d < 0 THEN 1 ELSE d

\* the values rand.Intn(n) returns; it panics for n <= 0
Intn(n) == 0..(n - 1)

\* the validations of the items: integers with nothing declared
ItemValidations ==
    [Minimum |-> [set |-> FALSE, v |-> 0], Maximum |-> [set |-> FALSE, v |-> 0],
     ExclusiveMinimum |-> FALSE, ExclusiveMaximum |-> FALSE]

\* the entries generateByType returns for the items
Entries ==
    LET r == FloatRange(ItemValidations) IN
    {IntOf(ItemValidations, f) : f \in Draws(r.realmin, r.realmax)}

\* generateArray(s, v, prefix) for an array of integers
GenerateArray ==
    /\ genPc = "idle"
    /\ \E v \in ArrayValidations :
          /\ genIn' = [op |-> "generateArray", v |-> v]
          /\ IF MaxDiff(v) <= 0
             THEN genOut' = [err |-> "panic", f |-> 0, i |-> 0, ar |-> <<>>]
             ELSE \E k \in Intn(MaxDiff(v)) :
                     \E ar \in [1..(k + ItemsOf(v.MinItems)) -> Entries] :
                        genOut' = [err |-> Nil, f |-> 0, i |-> 0, ar |-> ar]
    /\ genPc' = "done"
    /\ UNCHANGED notGen

\* the caller has taken the value
GenReturn ==
    /\ genPc = "done"
    /\ genPc' = "idle"
    /\ genIn' = [op |-> "none"]
    /\ genOut' = [err |-> Nil]
    /\ UNCHANGED notGen

NextGen == GenerateFloat \/ GenerateInt \/ GenerateArray \/ GenReturn

SpecGen == Init /\ [][NextGen]_vars

\* C7 (generation bounds): for integer bounds min < max every value
\* generateInt returns lies in [min, max]; with exclusiveMinimum or
\* exclusiveMaximum set it is never the excluded endpoint; it is the truncated
\* float draw, bumped by one when the truncation is at or below the minimum.
C7_IntWithinBounds ==
    (/\ genPc = "done" /\ genIn.op = "generateInt"
     /\ genIn.v.Minimum.set /\ genIn.v.Maximum.set
     /\ genIn.v.Minimum.v < genIn.v.Maximum.v) =>
       LET min == genIn.v.Minimum.v \div Scale
           max == genIn.v.Maximum.v \div Scale
           i == genOut.i
           t == Trunc(genOut.f) IN
       /\ genOut.err = Nil
       /\ min <= i /\ i <= max
       /\ genIn.v.ExclusiveMinimum => i # min
       /\ genIn.v.ExclusiveMaximum => i # max
       /\ i = IF t <= min THEN t + 1 ELSE t

\* C8 (conflicting bounds): with a minimum and a maximum declared and
\* min >= max, generateFloat and generateInt return an Invalid-kind error and
\* no value.
C8_ConflictingBoundsError ==
    (/\ genPc = "done"
     /\ genIn.v.Minimum.set /\ genIn.v.Maximum.set
     /\ genIn.v.Minimum.v >= genIn.v.Maximum.v) =>
       genOut.err = "ErrInvalid"

\* ------------------------------------------------------------------------
\* SpecIter: SchemaRef.Iterate
\* ------------------------------------------------------------------------

\* a document has the schema nodes 1..MaxNodes
MaxNodes == 3

\* the names a $ref can hold; node 1 is the definition "A", and a second
\* node without a parent is the definition "B"
RefNames == {"A", "B"}

NodeKinds == {"prim", "refA", "refB", "obj", "arr", "comp"}

\* the inline children of node i
Kids(parent, i) == {j \in DOMAIN parent : parent[j] = i}

\* the kinds a node with n inline children can have
KindsOf(n) ==
    IF n = 0 THEN {"prim", "refA", "refB"}
    ELSE IF n = 1 THEN {"obj", "arr", "comp"}
    ELSE {"obj", "comp"}

\* the inline trees: every node but 1 has a parent of a smaller number, or
\* none (0) when it is a definition of its own
Parents ==
    { p \in [2..MaxNodes -> 0..(MaxNodes - 1)] :
        /\ \A i \in 2..MaxNodes : p[i] < i
        /\ Cardinality({i \in 2..MaxNodes : p[i] = 0}) <= 1 }

\* the schema documents: the trees, the kind of every node and whether its
\* description carries the weak flag
Documents ==
    { g \in [parent : Parents, kind : [1..MaxNodes -> NodeKinds],
             weak : [1..MaxNodes -> BOOLEAN]] :
        \A i \in 1..MaxNodes :
            g.kind[i] \in KindsOf(Cardinality(Kids(g.parent, i))) }

\* the elements of a set of numbers in ascending order
RECURSIVE Ascending(_)
Ascending(S) ==
    IF S = {} THEN <<>>
    ELSE LET m == CHOOSE x \in S : \A y \in S : x <= y IN
         <<m>> \o Ascending(S \ {m})

\* schema.Value.AllOf
AllOf(g, i) ==
    IF g.kind[i] = "comp" THEN Ascending(Kids(g.parent, i)) ELSE <<>>

\* schema.Value.Properties
Properties(g, i) == IF g.kind[i] = "obj" THEN Kids(g.parent, i) ELSE {}

\* schema.Value.Items
Items(g, i) == IF g.kind[i] = "arr" THEN Ascending(Kids(g.parent, i)) ELSE <<>>

\* the definitions of the document
Definitions(g) ==
    [n \in {"A"} \cup {"B" : i \in {j \in 2..MaxNodes : g.parent[j] = 0}} |->
        IF n = "A" THEN 1 ELSE CHOOSE j \in 2..MaxNodes : g.parent[j] = 0]

\* swagger.GetReferredSchema: the name and the node a $ref resolves to, node 0
\* for a schema that is no $ref, an error for a name the document lacks
GetReferredSchema(g, i) ==
    LET name == IF g.kind[i] = "refA" THEN "A"
                ELSE IF g.kind[i] = "refB" THEN "B" ELSE "" IN
    IF name = "" THEN [err |-> Nil, name |-> "", node |-> 0]
    ELSE IF name \in DOMAIN Definitions(g)
    THEN [err |-> Nil, name |-> name, node |-> Definitions(g)[name]]
    ELSE [err |-> "ErrInvalid", name |-> name, node |-> 0]

\* GetMeqaTag(description) has the weak flag
TagWeak(g, i) == g.weak[i]

\* the weak checks left out
SkipsNever(weak, followWeak) == FALSE

\* the test both weak checks of Iterate make

SkipsWeak(weak, followWeak) == weak /\ ~followWeak

\* the visitors: one that records and goes on, and the one of Contains(name),
\* called for a name the document defines
Visitors == {"", "B"}

\* iterFunc of Contains: the error it returns
IterFunc(stopAt, schemaName) ==
    IF stopAt # "" /\ schemaName = stopAt THEN "found" ELSE Nil

\* schema.Iterate(iterFunc, context, swagger, followWeak) is called
IterCall ==
    /\ iterPc = "idle"
    /\ \E g \in Documents, followWeak \in BOOLEAN :
          \E start \in {Definitions(g)[n] : n \in DOMAIN Definitions(g)},
             stopAt \in Visitors \cap ({""} \cup DOMAIN Definitions(g)) :
             iterIn' = [g |-> g, start |-> start, followWeak |-> followWeak,
                        stopAt |-> stopAt]
             /\ iterStack' = <<start>>
    /\ iterPc' = "running"
    /\ iterLog' = <<>>
    /\ iterErr' = Nil
    /\ UNCHANGED notIter

\* Iterate returns err to its callers, which all return it at once
IterAbort(log, err) ==
    /\ iterLog' = log
    /\ iterStack' = <<>>
    /\ iterErr' = err
    /\ iterPc' = "done"

\* the body of one Iterate call, up to the calls it makes for its children
IterVisit ==
    /\ iterPc = "running"
    /\ iterStack # <<>>
    /\ LET g == iterIn.g
           n == Head(iterStack)
           rest == Tail(iterStack)
           own == Append(iterLog, [node |-> n, name |-> "", via |-> 0])
           r == GetReferredSchema(g, n)
           ref == Append(own, [node |-> r.node, name |-> r.name, via |-> n]) IN
       IF SkipsWeak(TagWeak(g, n), iterIn.followWeak)
       THEN iterStack' = rest /\ UNCHANGED <<iterLog, iterErr, iterPc>>
       ELSE IF IterFunc(iterIn.stopAt, "") # Nil
       THEN IterAbort(own, IterFunc(iterIn.stopAt, ""))
       ELSE IF Len(AllOf(g, n)) > 0
       THEN /\ iterStack' = AllOf(g, n) \o rest
            /\ iterLog' = own
            /\ UNCHANGED <<iterErr, iterPc>>
       ELSE IF r.err # Nil
       THEN IterAbort(own, r.err)
       ELSE IF r.node # 0
       THEN IF SkipsWeak(TagWeak(g, r.node), iterIn.followWeak)
            THEN /\ iterStack' = rest
                 /\ iterLog' = own
                 /\ UNCHANGED <<iterErr, iterPc>>
            ELSE IF IterFunc(iterIn.stopAt, r.name) # Nil
            THEN IterAbort(ref, IterFunc(iterIn.stopAt, r.name))
            ELSE /\ iterStack' = rest
                 /\ iterLog' = ref
                 /\ UNCHANGED <<iterErr, iterPc>>
       ELSE /\ \E o \in Orders(Properties(g, n)) :
                 iterStack' = o \o Items(g, n) \o rest
            /\ iterLog' = own
            /\ UNCHANGED <<iterErr, iterPc>>
    /\ UNCHANGED <<iterIn>>
    /\ UNCHANGED notIter

\* the outermost Iterate returns nil
IterReturn ==
    /\ iterPc = "running"
    /\ iterStack = <<>>
    /\ iterPc' = "done"
    /\ UNCHANGED <<iterIn, iterStack, iterLog, iterErr>>
    /\ UNCHANGED notIter

\* the caller has taken the result
IterReset ==
    /\ iterPc = "done"
    /\ iterPc' = "idle"
    /\ iterIn' = [op |-> "none"]
    /\ iterStack' = <<>>
    /\ iterLog' = <<>>
    /\ iterErr' = Nil
    /\ UNCHANGED notIter

NextIter == IterCall \/ IterVisit \/ IterReturn \/ IterReset

\* a call of Iterate runs on until it returns
FairIter == WF_vars(IterVisit) /\ WF_vars(IterReturn)

SpecIter == Init /\ [][NextIter]_vars /\ FairIter

\* with followWeak false no call of iterFunc is for a node tagged weak or
\* comes from a $ref tagged weak, and no node is handed to iterFunc twice by
\* the same schema
WeakNeverVisited ==
    (iterPc \in {"running", "done"} /\ ~iterIn.followWeak) =>
        /\ \A k \in 1..Len(iterLog) :
              /\ ~TagWeak(iterIn.g, iterLog[k].node)
              /\ iterLog[k].via # 0 => ~TagWeak(iterIn.g, iterLog[k].via)
        /\ \A k, l \in 1..Len(iterLog) : iterLog[k] = iterLog[l] => k = l

\* C5 (weak edges): on any schema document, also one with a self-reference or
\* mutual references tagged weak, Iterate with followWeak false returns, and
\* it never calls the visitor on a node tagged weak nor on a referent tagged
\* weak, so the target of a weak self-reference is not visited a second time.
C5_WeakEdgesSkipped ==
    /\ []WeakNeverVisited
    /\ (iterPc = "running" /\ ~iterIn.followWeak) ~> (iterPc = "done")

\* C5 witness: Iterate has returned from definition A, in which a $ref to A
\* tagged weak sits next to another schema; A was visited once
C5_Witness ==
    /\ iterPc = "done"
    /\ ~iterIn.followWeak
    /\ iterErr = Nil
    /\ iterIn.start = 1
    /\ \E r \in 2..MaxNodes :
          /\ iterIn.g.kind[r] = "refA"
          /\ iterIn.g.weak[r]
          /\ iterIn.g.parent[r] = 1
    /\ Len(iterLog) >= 2
    /\ Cardinality({k \in 1..Len(iterLog) : iterLog[k].node = 1}) = 1

\* ------------------------------------------------------------------------
\* SpecParse: SchemaRef.Parses, GetProperties, Validate
\* ------------------------------------------------------------------------

\* a map without keys
NoFields == [n \in {} |-> 0]

\* a *float64 or *uint64 that is nil
NoBound == [set |-> FALSE, v |-> 0]

\* a decoded JSON value: its reflect kind and what it holds
Obj(kind) ==
    [kind |-> kind, num |-> 0, str |-> <<>>, fields |-> NoFields, elems |-> <<>>]

NilObj == Obj("nil")

Num(x) == [Obj("float") EXCEPT !.num = x]

Str(s) == [Obj("string") EXCEPT !.str = s]

MapObj(f) == [Obj("map") EXCEPT !.fields = f]

Slice(e) == [Obj("slice") EXCEPT !.elems = e]

\* a schema of the given type with nothing else declared
Sch(type) ==
    [Ref |-> "", AllOf |-> <<>>, Type |-> type, Properties |-> NoFields,
     Required |-> {}, Items |-> <<>>, Min |-> NoBound, Max |-> NoBound,
     MinLength |-> 0, MaxLength |-> NoBound,
     Pattern |-> [set |-> FALSE, matches |-> {}],
     Tag |-> [Class |-> "", Property |-> ""]]

\* strings.Contains(schema.Value.Type, t), Type holding one type name
TypeHas(schema, t) == schema.Type = t

\* Validate(s, c); a Pattern stands for the strings it matches
Validate(s, c) ==
    /\ TypeHas(s, "string") =>
          ~(\/ s.MinLength > Len(c.str)
            \/ (s.MaxLength.set /\ Len(c.str) > s.MaxLength.v))
    /\ (~TypeHas(s, "string") /\ (TypeHas(s, "number") \/ TypeHas(s, "integer"))) =>
          ~(\/ (s.Min.set /\ s.Min.v > c.num)
            \/ (s.Max.set /\ c.num > s.Max.v))
    /\ s.Pattern.set => c.str \in s.Pattern.matches

\* swagger.GetReferredSchema over the definitions defs
ReferredSchema(schema, defs) ==
    IF schema.Ref = "" THEN [err |-> Nil, name |-> "", found |-> FALSE]
    ELSE IF schema.Ref \in DOMAIN defs
    THEN [err |-> Nil, name |-> schema.Ref, found |-> TRUE]
    ELSE [err |-> "ErrInvalid", name |-> schema.Ref, found |-> FALSE]

\* m with the entries of p written over it
Overwrite(m, p) ==
    [k \in DOMAIN m \cup DOMAIN p |-> IF k \in DOMAIN p THEN p[k] ELSE m[k]]

RECURSIVE GetProperties(_, _)
RECURSIVE AllOfProperties(_, _, _, _)

\* the loop of GetProperties over schema.Value.AllOf
AllOfProperties(parts, i, properties, defs) ==
    IF i > Len(parts) THEN properties
    ELSE AllOfProperties(parts, i + 1,
                         Overwrite(properties, GetProperties(parts[i], defs)), defs)

\* schema.GetProperties(swagger); a nil map is the map without keys
GetProperties(schema, defs) ==
    LET r == ReferredSchema(schema, defs) IN
    IF Cardinality(DOMAIN schema.Properties) > 0 THEN schema.Properties
    ELSE IF r.err # Nil THEN NoFields
    ELSE IF r.found THEN GetProperties(defs[r.name], defs)
    ELSE IF Len(schema.AllOf) > 0
    THEN AllOfProperties(schema.AllOf, 1, NoFields, defs)
    ELSE NoFields

\* collection[key] = append(collection[key], object)
Collect(collection, key, object) ==
    IF key \in DOMAIN collection
    THEN [collection EXCEPT ![key] = Append(@, object)]
    ELSE [k \in DOMAIN collection \cup {key} |->
             IF k = key THEN <<object>> ELSE collection[k]]

\* the threshold with <= for <
TooManyMismatchedOrEqual(count, n) == count * 4 <= n * 3

\* count*4 < len(objMap)*3
TooManyMismatched(count, n) == count * 4 < n * 3

\* raiseError(msg): every mismatch is the same kind of error
Mismatch == "schema and object don't match"

\* what Parses returns and what it has made of the collection
Parsed(err, collection) == [err |-> err, collection |-> collection]

RECURSIVE Parses(_, _, _, _, _, _)
RECURSIVE AllOfLoop(_, _, _, _, _, _, _)
RECURSIVE MapLoop(_, _, _, _, _, _, _, _)
RECURSIVE ItemsLoop(_, _, _, _, _, _)

\* the loop of Parses over schema.Value.AllOf
AllOfLoop(parts, i, objMap, count, collection, followRef, sw) ==
    IF i > Len(parts) THEN [err |-> Nil, count |-> count, collection |-> collection]
    ELSE LET prop == GetProperties(parts[i], sw.defs)
             keys == DOMAIN prop \cap DOMAIN objMap
             m == [k \in keys |-> objMap[k]]
             r == Parses(parts[i], "", MapObj(m), collection, followRef, sw) IN
         IF Cardinality(DOMAIN prop) = 0
         THEN AllOfLoop(parts, i + 1, objMap, count, collection, followRef, sw)
         ELSE IF r.err # Nil
         THEN [err |-> r.err, count |-> count + Cardinality(keys),
               collection |-> r.collection]
         ELSE AllOfLoop(parts, i + 1, objMap, count + Cardinality(keys),
                        r.collection, followRef, sw)

\* the loop of Parses over the fields of objMap, ranged over in the order keys
MapLoop(schema, keys, i, objMap, count, collection, followRef, sw) ==
    IF i > Len(keys) THEN [err |-> Nil, count |-> count, collection |-> collection]
    ELSE IF keys[i] \in DOMAIN schema.Properties
    THEN LET r == Parses(schema.Properties[keys[i]], "", objMap[keys[i]],
                         collection, followRef, sw) IN
         IF r.err # Nil
         THEN [err |-> r.err, count |-> count + 1, collection |-> r.collection]
         ELSE MapLoop(schema, keys, i + 1, objMap, count + 1, r.collection,
                      followRef, sw)
    ELSE MapLoop(schema, keys, i + 1, objMap, count, collection, followRef, sw)

\* the loop of Parses over the elements of an array
ItemsLoop(itemsSchema, ar, i, collection, followRef, sw) ==
    IF i > Len(ar) THEN Parsed(Nil, collection)
    ELSE LET r == Parses(itemsSchema, "", ar[i], collection, followRef, sw) IN
         IF r.err # Nil THEN r
         ELSE ItemsLoop(itemsSchema, ar, i + 1, r.collection, followRef, sw)

\* the tail of Parses: a property with a class and a property tag is collected
CollectProperty(schema, object, collection, followRef) ==
    IF ~followRef /\ schema.Tag.Class # "" /\ schema.Tag.Property # ""
    THEN Parsed(Nil, Collect(collection,
                             schema.Tag.Class \o "." \o schema.Tag.Property, object))
    ELSE Parsed(Nil, collection)

\* schema.Parses(name, object, collection, followRef, swagger); sw holds the
\* definitions of the document and the order this run ranges over map keys
Parses(schema, name, object, collection, followRef, sw) ==
    LET ref == ReferredSchema(schema, sw.defs)
        fail == Parsed(Mismatch, collection)
        isNumber == TypeHas(schema, "integer") \/ TypeHas(schema, "number")
        keys == SelectSeq(sw.order, LAMBDA k : k \in DOMAIN object.fields)
        n == Cardinality(DOMAIN object.fields)
        all == AllOfLoop(schema.AllOf, 1, object.fields, 0, collection, followRef, sw)
        map == MapLoop(schema, keys, 1, object.fields, 0, collection, followRef, sw)
    IN
    IF object.kind = "nil" THEN Parsed(Nil, collection)
    ELSE IF ref.err # Nil THEN Parsed(ref.err, collection)
    ELSE IF ref.found
    THEN IF ~followRef THEN Parsed(Nil, collection)
         ELSE Parses(sw.defs[ref.name], ref.name, object, collection, followRef, sw)
    ELSE IF Len(schema.AllOf) > 0
    THEN IF object.kind # "map" THEN fail
         ELSE IF all.err # Nil THEN Parsed(all.err, all.collection)
         ELSE IF TooManyMismatched(all.count, n)
         THEN Parsed(Mismatch, all.collection)
         ELSE IF name # "" THEN Parsed(Nil, Collect(all.collection, name, object))
         ELSE Parsed(Nil, all.collection)
    ELSE IF object.kind = "bool"
    THEN IF ~TypeHas(schema, "boolean") THEN fail
         ELSE CollectProperty(schema, object, collection, followRef)
    ELSE IF object.kind = "int"
    THEN IF ~isNumber THEN fail
         ELSE IF schema.Min.set \/ schema.Max.set THEN Parsed("panic", collection)
         ELSE IF ~Validate(schema, object) THEN fail
         ELSE CollectProperty(schema, object, collection, followRef)
    ELSE IF object.kind = "float"
    THEN IF ~isNumber THEN fail
         ELSE IF ~Validate(schema, object) THEN fail
         ELSE CollectProperty(schema, object, collection, followRef)
    ELSE IF object.kind \in {"string", "json.Number"}
    THEN IF TypeHas(schema, "string")
         THEN IF ~Validate(schema, object) THEN fail
              ELSE CollectProperty(schema, object, collection, followRef)
         ELSE IF ~(object.kind = "json.Number" /\ isNumber) THEN fail
         ELSE CollectProperty(schema, object, collection, followRef)
    ELSE IF object.kind = "map"
    THEN IF \E requiredName \in schema.Required :
               requiredName \notin DOMAIN object.fields
         THEN fail
         ELSE IF map.err # Nil THEN Parsed(map.err, map.collection)
         ELSE IF TooManyMismatched(map.count, n)
         THEN Parsed(Mismatch, map.collection)
         ELSE IF name # "" THEN Parsed(Nil, Collect(map.collection, name, object))
         ELSE Parsed(Nil, map.collection)
    ELSE IF object.kind = "slice"
    THEN IF ~TypeHas(schema, "array") THEN fail
         ELSE IF Len(schema.Items) = 0 THEN Parsed("panic", collection)
         ELSE ItemsLoop(schema.Items[1], object.elems, 1, collection, followRef, sw)
    ELSE fail

\* schema.Matches(object, swagger)
Matches(schema, object, sw) ==
    Parses(schema, "", object, NoFields, TRUE, sw).err = Nil

\* objects and schemas have at most MaxFields fields, named in this order
MaxFields == 4

AllFields == <<"a", "b", "c", "d", "e", "f">>

FieldNames == {AllFields[i] : i \in 1..MaxFields}

\* the maps from some of the names S to the values V
MapsOver(S, V) == UNION {[T -> V] : T \in SUBSET S}

\* the values of the fields of a parsed object
FieldValues == {Num(1), Str(<<"s">>)}

\* the schemas of the properties of a parsed schema
PropertySchemas == {Sch("number"), Sch("string")}

\* the objects parsed: maps of some of the fields
ParseObjects == {MapObj(f) : f \in MapsOver(FieldNames, FieldValues)}

\* the schemas parsed against: objects declaring some of the fields, none or
\* the first of them required
ParseSchemas ==
    {[Sch("object") EXCEPT !.Properties = props, !.Required = req] :
        props \in MapsOver(FieldNames, PropertySchemas),
        req \in {{}, {AllFields[1]}}}

\* the definitions of the document the schemas belong to
ParseDefs == [n \in {"A"} |-> Sch("object")]

\* the orders the run ranges over the keys of a map
KeyOrders ==
    {[i \in 1..MaxFields |-> AllFields[i]],
     [i \in 1..MaxFields |-> AllFields[MaxFields + 1 - i]]}

\* the callers: Matches (no name, references followed) and a collecting parse
\* under the name of the definition
ParseCallers == {[name |-> "", followRef |-> TRUE], [name |-> "A", followRef |-> FALSE]}

\* schema.Parses(name, object, collection, followRef, swagger) on an empty
\* collection
ParsesCall ==
    /\ parsePc = "idle"
    /\ \E schema \in ParseSchemas, object \in ParseObjects, c \in ParseCallers,
          order \in KeyOrders :
          /\ parseIn' = [schema |-> schema, object |-> object, name |-> c.name,
                         followRef |-> c.followRef]
          /\ parseOut' = Parses(schema, c.name, object, NoFields, c.followRef,
                                [defs |-> ParseDefs, order |-> order])
    /\ parsePc' = "done"
    /\ UNCHANGED notParse

\* the member schemas of a composite: objects declaring some of the first two
\* fields as numbers
MemberSchemas ==
    {[Sch("object") EXCEPT !.Properties = props] :
        props \in MapsOver({AllFields[1], AllFields[2]}, {Sch("number")})}

\* the composite schemas parsed against: one or two member schemas in AllOf
CompositeSchemas ==
    {[Sch("") EXCEPT !.AllOf = parts] :
        parts \in [1..1 -> MemberSchemas] \cup [1..2 -> MemberSchemas]}

\* schema.Parses(name, object, collection, followRef, swagger) of a composite
\* schema on an empty collection
ParsesAllOfCall ==
    /\ parsePc = "idle"
    /\ \E schema \in CompositeSchemas, object \in ParseObjects, c \in ParseCallers,
          order \in KeyOrders :
          /\ parseIn' = [schema |-> schema, object |-> object, name |-> c.name,
                         followRef |-> c.followRef]
          /\ parseOut' = Parses(schema, c.name, object, NoFields, c.followRef,
                                [defs |-> ParseDefs, order |-> order])
    /\ parsePc' = "done"
    /\ UNCHANGED notParse

\* one schema of every declared type, the array one of numbers
TypedSchemas ==
    {Sch(t) : t \in {"boolean", "integer", "number", "string", "object"}}
    \cup {[Sch("array") EXCEPT !.Items = <<Sch("number")>>]}

\* objects of every decoded kind, the map and the array empty or not
TypedObjects ==
    {Obj("bool"), Num(1), Str(<<"s">>), MapObj(NoFields),
     MapObj([f \in {AllFields[1]} |-> Num(1)]), Slice(<<>>), Slice(<<Num(1)>>)}

\* schema.Parses(name, object, collection, followRef, swagger) of an object
\* of any kind against a schema of any type
ParsesTypeCall ==
    /\ parsePc = "idle"
    /\ \E schema \in TypedSchemas, object \in TypedObjects, c \in ParseCallers,
          order \in KeyOrders :
          /\ parseIn' = [schema |-> schema, object |-> object, name |-> c.name,
                         followRef |-> c.followRef]
          /\ parseOut' = Parses(schema, c.name, object, NoFields, c.followRef,
                                [defs |-> ParseDefs, order |-> order])
    /\ parsePc' = "done"
    /\ UNCHANGED notParse

\* the caller has taken the result
ParsesReturn ==
    /\ parsePc = "done"
    /\ parsePc' = "idle"
    /\ parseIn' = [op |-> "none"]
    /\ parseOut' = [err |-> Nil]
    /\ UNCHANGED notParse

NextParse == ParsesCall \/ ParsesAllOfCall \/ ParsesTypeCall \/ ParsesReturn

SpecParse == Init /\ [][NextParse]_vars

\* the fields of the parsed object the parsed schema declares
Recognized == DOMAIN parseIn.object.fields \cap DOMAIN parseIn.schema.Properties

\* a field value and a property schema of the same type
SameType(value, schema) ==
    \/ value.kind = "float" /\ schema.Type = "number"
    \/ value.kind = "string" /\ schema.Type = "string"

\* C6 (object threshold): a map object with n fields, k of them declared in
\* the properties of an object schema, every required field present and every
\* recognized field's value parsing, parses if and only if 4k >= 3n.
C6_ObjectThreshold ==
    (/\ parsePc = "done"
     /\ parseIn.schema.Type = "object"
     /\ parseIn.object.kind = "map"
     /\ parseIn.schema.Required \subseteq DOMAIN parseIn.object.fields
     /\ \A f \in Recognized :
           SameType(parseIn.object.fields[f], parseIn.schema.Properties[f])) =>
       LET n == Cardinality(DOMAIN parseIn.object.fields)
           k == Cardinality(Recognized) IN
       (parseOut.err = Nil) <=> (4 * k >= 3 * n)

\* C6 witness: an object with four fields, three of them declared, has parsed
C6_Witness ==
    /\ parsePc = "done"
    /\ parseIn.schema.Type = "object"
    /\ parseIn.schema.Required # {}
    /\ Cardinality(DOMAIN parseIn.object.fields) = 4
    /\ Cardinality(Recognized) = 3
    /\ parseOut.err = Nil

\* the fields of the parsed object that a member of the parsed composite
\* declares
Declared ==
    DOMAIN parseIn.object.fields
        \cap UNION {DOMAIN parseIn.schema.AllOf[i].Properties :
                        i \in 1..Len(parseIn.schema.AllOf)}

\* C11 (composite threshold): a map object with n fields parses against a
\* composite schema only if k, the number of its fields that some member
\* schema declares, satisfies 4k >= 3n, also when several members declare the
\* same property.
C11_CompositeThreshold ==
    (/\ parsePc = "done"
     /\ Len(parseIn.schema.AllOf) > 0
     /\ parseOut.err = Nil) =>
       4 * Cardinality(Declared) >= 3 * Cardinality(DOMAIN parseIn.object.fields)

\* the decoded kind of an object agrees with the declared type of a schema
KindAgrees(object, schema) ==
    \/ object.kind = "bool" /\ schema.Type = "boolean"
    \/ object.kind \in {"int", "float", "json.Number"}
          /\ schema.Type \in {"integer", "number"}
    \/ object.kind = "string" /\ schema.Type = "string"
    \/ object.kind = "map" /\ schema.Type = "object"
    \/ object.kind = "slice" /\ schema.Type = "array"

\* C12 (type mismatch fails): Parses of a non-nil object against a schema that
\* is neither a reference nor a composite returns an error whenever the
\* object's decoded kind disagrees with the schema's declared type; a map
\* object, the empty map too, is rejected by a primitive or array schema.
C12_TypeMismatchFails ==
    (/\ parsePc = "done"
     /\ parseIn.schema.Ref = ""
     /\ Len(parseIn.schema.AllOf) = 0
     /\ parseIn.object.kind # "nil"
     /\ ~KindAgrees(parseIn.object, parseIn.schema)) =>
       parseOut.err # Nil

\* C13 (array generation count): for 0 <= minItems <= maxItems generateArray
\* returns without failure an array whose length lies in
\* [minItems, maxItems], with exactly n elements when minItems = maxItems = n.
C13_ArrayLength ==
    (/\ genPc = "done" /\ genIn.op = "generateArray"
     /\ genIn.v.MinItems.set /\ genIn.v.MaxItems.set
     /\ 0 <= genIn.v.MinItems.v
     /\ genIn.v.MinItems.v <= genIn.v.MaxItems.v) =>
       /\ genOut.err = Nil
       /\ genIn.v.MinItems.v <= Len(genOut.ar)
       /\ Len(genOut.ar) <= genIn.v.MaxItems.v

\* C14 (Update touches only what it matched): a DB.Update leaves the data of
\* every entry of the collection that did not match unchanged, also when
\* entries share an object installed by an earlier Update or inserted twice,
\* and it never changes the number of entries or an entry's associations.
C14_UpdateOnlyMatched ==
    \A p \in Callers :
        (Ran(p, "Update") /\ call[p].name \in Classes) =>
           LET pre == ret[p].pre[call[p].name].Objects
               post == schemas[call[p].name].Objects
               h == ret[p].preHeap IN
           /\ Len(post) = Len(pre)
           /\ \A i \in 1..Len(pre) :
                 /\ post[i].Associations = pre[i].Associations
                 /\ ~ClaimMatches(pre[i], h, call[p]) =>
                       heap[post[i].Data] = h[pre[i].Data]

\* C15 (Run terminates): TestPlan.Run(name) returns, with success or an
\* error, for every plan, also one in which a test's ref names its own case or
\* a case that refers back to it: the calls of Run never nest until the stack
\* of the goroutine is exhausted.
C15_RunTerminates == runPc # "overflow"

====
